---------------------------- MODULE Spec2Model ----------------------------
(***************************************************************************)
(* Answer-span localisation and paragraph selection of the MRC             *)
(* preprocessing pipeline:                                                 *)
(*   src/preprocess/3.gen_mrc_dataset.py   find_best_match_index,          *)
(*                                         gen_mrc_dataset                 *)
(*   src/preprocess/3.extract_paragraph.py extract_paragraph               *)
(*                                                                         *)
(* A text is a sequence of characters, each character a string.  The       *)
(* module is ASCII only, so the non-ASCII characters of the source are     *)
(* written by name: FullStop is U+3002 (the ideographic full stop the      *)
(* source tests with endswith), Bang is U+FF01 (full-width exclamation     *)
(* mark), Tab is the tabulator.  A document marker "@content<N>@" is one   *)
(* element of a text (Marker(N)): the inputs hold "@" and "content" only   *)
(* inside markers and inside TailMarker(N), the text "content<N>@" with no *)
(* "@" before it.                                                          *)
(***************************************************************************)
EXTENDS Integers, Sequences, FiniteSets, TLC

VARIABLES
    \* find_best_match_index(sub_text, doc_content), one call
    sub_text, doc_content, loc_pc, search, result,
    \* gen_mrc_dataset(sample), one call
    documents, sample_keys, supporting_paragraph, answer,
    supported_paras, sup_todo, ans_todo, answer_texts, answer_labels,
    fake_answers, ceil_rougel, mrc_pc, error, resolved,
    \* extract_paragraph(sample, max_doc_len), one document
    doc, max_doc_len, selection, passage, ex_pc,
    \* the loop over sys.stdin of a pipeline script
    stdin, line_no, stdout, stream_pc, stream_error,
    \* extract_match_features(sample), one document
    match_content, sents, sent_i, levenshtein_dist, match_pc, match_error,
    \* extract_text_features(text, question_sapns), the entity loop
    ent_text, entities, char_i, entity_i, char_entity, ent_pc

locVars == <<sub_text, doc_content, loc_pc, search, result>>
mrcVars == <<documents, sample_keys, supporting_paragraph, answer,
             supported_paras, sup_todo, ans_todo, answer_texts, answer_labels,
             fake_answers, ceil_rougel, mrc_pc, error, resolved>>
exVars  == <<doc, max_doc_len, selection, passage, ex_pc>>
streamVars == <<stdin, line_no, stdout, stream_pc, stream_error>>
matchVars == <<match_content, sents, sent_i, levenshtein_dist, match_pc, match_error>>
entVars == <<ent_text, entities, char_i, entity_i, char_entity, ent_pc>>
featVars == <<matchVars, entVars>>
vars    == <<locVars, mrcVars, exVars, streamVars, featVars>>

---------------------------------------------------------------------------
(* Bounds of the model *)

MaxSubLen == 3
MaxDocLen == 4

---------------------------------------------------------------------------
(* Characters *)

FullStop == "FS"
Space    == " "
Tab      == "TAB"
Bang     == "EX"

\* str.strip() with no argument strips every whitespace character.
Whitespace == {Space, Tab}

SubAlphabet == {"a", "b", FullStop, Space, Bang, Tab}
DocAlphabet == {"a", "b", FullStop}

Texts(A, n) == UNION {[1..k -> A] : k \in 0..n}

Max(x, y) == IF x >= y THEN x ELSE y
Min(x, y) == IF x <= y THEN x ELSE y

---------------------------------------------------------------------------
(* Python's str and list operations, offsets zero-based as in the source *)

\* s[lo:hi]
PySlice(s, lo, hi) ==
    LET n == Len(s)
        l == IF lo < 0 THEN Max(lo + n, 0) ELSE Min(lo, n)
        h == IF hi < 0 THEN Max(hi + n, 0) ELSE Min(hi, n)
    IN  SubSeq(s, l + 1, h)

\* sub in s
Contains(s, sub) ==
    \E i \in 0..(Len(s) - Len(sub)) : SubSeq(s, i + 1, i + Len(sub)) = sub

\* s.index(sub), for sub in s
Index(s, sub) ==
    CHOOSE i \in 0..(Len(s) - Len(sub)) :
        /\ SubSeq(s, i + 1, i + Len(sub)) = sub
        /\ \A j \in 0..(i - 1) : SubSeq(s, j + 1, j + Len(sub)) # sub

\* s.endswith(c)
EndsWith(s, c) == Len(s) > 0 /\ s[Len(s)] = c

\* s.replace(c, '')
Remove(s, c) == LET Keep(x) == x # c IN SelectSeq(s, Keep)

\* set(s)
CharSet(s) == {s[i] : i \in 1..Len(s)}

RECURSIVE Strip(_)
\* s.strip()
Strip(s) ==
    IF Len(s) = 0 THEN s
    ELSE IF s[1] \in Whitespace THEN Strip(Tail(s))
    ELSE IF s[Len(s)] \in Whitespace THEN Strip(SubSeq(s, 1, Len(s) - 1))
    ELSE s

RECURSIVE Join(_)
\* ''.join(parts)
Join(parts) == IF Len(parts) = 0 THEN <<>> ELSE Head(parts) \o Join(Tail(parts))

---------------------------------------------------------------------------
(* RougeL().add_inst(cand, ref).get_score() of utils/rouge.py: the F-measure *)
(* of the longest common subsequence, gamma = 1.2.  A score is the fraction  *)
(* <<numerator, denominator>>:                                               *)
(*   (1 + g^2) P R / (R + g^2 P) = 244 L / (100 len(cand) + 144 len(ref)).   *)

RECURSIVE LCSRow(_, _, _, _)
\* One row of the table of the longest common subsequence: prev[j + 1] is the
\* length for x[1..i-1] and y[1..j], c is x[i], and row holds the lengths for
\* x[1..i] and y[1..j] that are already known
LCSRow(prev, c, y, row) ==
    IF Len(row) > Len(y) THEN row
    ELSE LET j == Len(row)
         IN  LCSRow(prev, c, y,
                 Append(row, IF j = 0 THEN 0
                             ELSE IF c = y[j] THEN prev[j] + 1
                             ELSE Max(prev[j + 1], row[j])))

RECURSIVE LCSRows(_, _, _, _)
\* the rows one after the other, each one complete before the next is begun
LCSRows(x, y, i, prev) ==
    IF i > Len(x) THEN prev[Len(y) + 1]
    ELSE LET row == LCSRow(prev, x[i], y, <<>>)
         IN  IF Len(row) = Len(y) + 1 THEN LCSRows(x, y, i + 1, row) ELSE 0

\* the length of the longest common subsequence of x and y
LCS(x, y) == LCSRows(x, y, 1, [j \in 1..(Len(y) + 1) |-> 0])

Zero == <<0, 1>>
One  == <<1, 1>>

RougeL(cand, ref) ==
    LET l == LCS(cand, ref)
    IN  IF l = 0 THEN Zero ELSE <<244 * l, 100 * Len(cand) + 144 * Len(ref)>>

ScoreGT(x, y) == x[1] * y[2] > y[1] * x[2]
ScoreEQ(x, y) == x[1] * y[2] = y[1] * x[2]

---------------------------------------------------------------------------
(* find_best_match_index *)

\* a span whose end is one past the last character of t
ExactSpan_OffByOne(t, content) ==
    LET best_start == Index(content, t)
    IN  <<best_start, best_start + Len(t), One>>

\* lines 29-32, 36-38, 43-45: the first occurrence of text t with confidence 1
ExactSpan(t, content) ==
    LET best_start == Index(content, t)
    IN  <<best_start, best_start + Len(t) - 1, One>>

\* line 29
IsExact(sub, content) == Contains(content, sub)

\* the trimmed mark taken to be the exclamation mark U+FF01
TrimMark_Bang == Bang

\* line 34: the literal the source tests for
TrimMark == FullStop

\* line 34
IsTrimmed(sub, content) ==
    /\ EndsWith(sub, TrimMark)
    /\ Contains(content, SubSeq(sub, 1, Len(sub) - 1))

\* spaces removed at the two ends of the fragment only
StripSpaces_StripOnly(sub) ==
    LET first == CHOOSE i \in 1..(Len(sub) + 1) :
                     /\ (i <= Len(sub) => sub[i] # Space)
                     /\ \A j \in 1..(i - 1) : sub[j] = Space
        last == CHOOSE i \in 0..Len(sub) :
                     /\ (i >= 1 => sub[i] # Space)
                     /\ \A j \in (i + 1)..Len(sub) : sub[j] = Space
    IN  SubSeq(sub, first, last)

\* line 41: sub_text.replace(' ', '')
StripSpaces(sub) == Remove(sub, Space)

\* line 41
IsStripped(sub, content) == Contains(content, StripSpaces(sub))

\* lines 50-54: the state of the search as the outer loop is entered
SearchInit(content) ==
    [start_idx |-> 0, end_idx |-> -1, inner |-> FALSE,
     last_end_in_sub_text |-> Len(content) - 1,
     best_score |-> Zero, best_start |-> -1, best_end |-> -1,
     evaluated |-> <<>>]

\* line 55: range(0, len(doc_content) - len(sub_text)) is exhausted
SearchDone(st, sub, content) ==
    ~st.inner /\ st.start_idx >= Len(content) - Len(sub)

\* a window replacing the best one when its score is as high
Improve_OnTies(st, score) ==
    IF ~ScoreGT(st.best_score, score)
    THEN [st EXCEPT !.best_score = score, !.best_start = st.start_idx,
                    !.best_end = st.end_idx, !.last_end_in_sub_text = st.end_idx]
    ELSE st

\* the end ceiling left where it was when the best window is replaced
Improve_KeepCeiling(st, score) ==
    IF ScoreGT(score, st.best_score)
    THEN [st EXCEPT !.best_score = score, !.best_start = st.start_idx,
                    !.best_end = st.end_idx]
    ELSE st

\* lines 66-70
Improve(st, score) ==
    IF ScoreGT(score, st.best_score)
    THEN [st EXCEPT !.best_score = score, !.best_start = st.start_idx,
                    !.best_end = st.end_idx, !.last_end_in_sub_text = st.end_idx]
    ELSE st

\* lines 63-64: the window doc_content[start_idx: end_idx + 1] is scored; the
\* windows scored so far, in the order of their scoring, are kept as the
\* history of the search
Score(st, sub, content) ==
    LET score == RougeL(SubSeq(content, st.start_idx + 1, st.end_idx + 1), sub)
    IN  [st EXCEPT !.evaluated =
            Append(st.evaluated,
                   [start |-> st.start_idx, end |-> st.end_idx, score |-> score,
                    ceiling |-> st.last_end_in_sub_text])]

\* lines 59, 55: the next end_idx of range(last_end, start_idx - 1, -1), the
\* range having been built as the inner loop was entered; past its end the
\* outer loop goes on with the next start_idx
Advance(st) ==
    IF st.end_idx - 1 >= st.start_idx
    THEN [st EXCEPT !.end_idx = st.end_idx - 1]
    ELSE [st EXCEPT !.inner = FALSE, !.end_idx = -1, !.start_idx = st.start_idx + 1]

\* lines 55-70: one iteration of the outer loop's head or of the inner loop
SearchStep(st, sub, content) ==
    LET support_para_chars == CharSet(sub)
    IN  IF ~st.inner
        THEN IF content[st.start_idx + 1] \notin support_para_chars
             THEN [st EXCEPT !.start_idx = st.start_idx + 1]
             ELSE IF st.last_end_in_sub_text >= st.start_idx
                  THEN [st EXCEPT !.inner = TRUE, !.end_idx = st.last_end_in_sub_text]
                  ELSE [st EXCEPT !.start_idx = st.start_idx + 1]
        ELSE IF content[st.end_idx + 1] \notin support_para_chars
             THEN Advance(st)
             ELSE Advance(Improve(Score(st, sub, content),
                      RougeL(SubSeq(content, st.start_idx + 1, st.end_idx + 1), sub)))

\* lines 72-75
SearchResult(st) ==
    IF st.best_score = Zero
    THEN <<-1, -1, Zero>>
    ELSE <<st.best_start, st.best_end, st.best_score>>

RECURSIVE SearchRun(_, _, _)
SearchRun(st, sub, content) ==
    IF SearchDone(st, sub, content) THEN st
    ELSE SearchRun(SearchStep(st, sub, content), sub, content)

\* lines 25-75, the whole function
find_best_match_index(sub, content) ==
    IF IsExact(sub, content) THEN ExactSpan(sub, content)
    ELSE IF IsTrimmed(sub, content)
         THEN ExactSpan(SubSeq(sub, 1, Len(sub) - 1), content)
    ELSE IF IsStripped(sub, content)
         THEN ExactSpan(StripSpaces(sub), content)
    ELSE SearchResult(SearchRun(SearchInit(content), sub, content))


---------------------------------------------------------------------------
(* One call of find_best_match_index, the fallback search step by step *)

NoResult == <<-2, -2, Zero>>

LocIdle ==
    /\ sub_text = <<>> /\ doc_content = <<>> /\ loc_pc = "idle"
    /\ search = SearchInit(<<>>) /\ result = NoResult

\* The two calls the specification gives as examples: a fragment of three
\* characters and a full stop against a text holding the three characters at
\* offset 2, and a fragment of six characters against a text of eight others.
LocateExamples ==
    { << <<"bei", "jing", "shi", FullStop>>,
         <<"ta", "zai", "bei", "jing", "shi", "gong", "zuo">> >>,
      << <<"x", "y", "z", "1", "2", "3">>,
         <<"wan", "quan", "bu", "xiang", "guan", "de", "wen", "ben">> >> }

\* Two windows of one container have the same score against a fragment only
\* when the fragment is long: with 244 L / (100 c + 144 r) for a window of c
\* characters that shares L with a fragment of r, a window inside another one
\* ties with it only if 25 divides r (L' - L).  A fragment of 25 characters
\* against a text of 39: the first 38 characters (L = 2, c = 38) and the
\* first character alone (L = 1, c = 1) both score 244 / 3700, the whole
\* text (L = 2, c = 39) less.
TieFragment == <<"a">> \o [i \in 1..23 |-> "z"] \o <<"b">>
TieContainer == <<"a">> \o [i \in 1..36 |-> "x"] \o <<"b", "a">>
LocateTies == { <<TieFragment, TieContainer>> }

\* A fragment of two characters against a text of five, the shortest text in
\* which a window of a later start is scored after the end ceiling has come
\* down: the window [0, 2] becomes the best one, the start 2 is tried next.
LocateLaterStart == { << <<"a", "a">>, <<"a", "b", "a", "b", "a">> >> }

LocateInputs ==
    (Texts(SubAlphabet, MaxSubLen) \X Texts(DocAlphabet, MaxDocLen))
        \cup LocateExamples \cup LocateTies \cup LocateLaterStart

\* line 29-32
ExactMatch ==
    /\ loc_pc = "call"
    /\ IsExact(sub_text, doc_content)
    /\ result' = ExactSpan(sub_text, doc_content)
    /\ loc_pc' = "returned"
    /\ UNCHANGED <<sub_text, doc_content, search, mrcVars, exVars, streamVars, featVars>>

\* lines 34-38
TrimmedMatch ==
    /\ loc_pc = "call"
    /\ ~IsExact(sub_text, doc_content)
    /\ IsTrimmed(sub_text, doc_content)
    /\ result' = ExactSpan(SubSeq(sub_text, 1, Len(sub_text) - 1), doc_content)
    /\ loc_pc' = "returned"
    /\ UNCHANGED <<sub_text, doc_content, search, mrcVars, exVars, streamVars, featVars>>

\* lines 41-45
StrippedMatch ==
    /\ loc_pc = "call"
    /\ ~IsExact(sub_text, doc_content)
    /\ ~IsTrimmed(sub_text, doc_content)
    /\ IsStripped(sub_text, doc_content)
    /\ result' = ExactSpan(StripSpaces(sub_text), doc_content)
    /\ loc_pc' = "returned"
    /\ UNCHANGED <<sub_text, doc_content, search, mrcVars, exVars, streamVars, featVars>>

\* lines 48-54
FallbackBegin ==
    /\ loc_pc = "call"
    /\ ~IsExact(sub_text, doc_content)
    /\ ~IsTrimmed(sub_text, doc_content)
    /\ ~IsStripped(sub_text, doc_content)
    /\ search' = SearchInit(doc_content)
    /\ loc_pc' = "search"
    /\ UNCHANGED <<sub_text, doc_content, result, mrcVars, exVars, streamVars, featVars>>

\* lines 55-70
FallbackStep ==
    /\ loc_pc = "search"
    /\ ~SearchDone(search, sub_text, doc_content)
    /\ search' = SearchStep(search, sub_text, doc_content)
    /\ UNCHANGED <<sub_text, doc_content, loc_pc, result, mrcVars, exVars, streamVars, featVars>>

\* lines 72-75
FallbackReturn ==
    /\ loc_pc = "search"
    /\ SearchDone(search, sub_text, doc_content)
    /\ result' = SearchResult(search)
    /\ loc_pc' = "returned"
    /\ UNCHANGED <<sub_text, doc_content, search, mrcVars, exVars, streamVars, featVars>>

---------------------------------------------------------------------------
(* Markers of answer and supporting_paragraph *)

MarkerTok == <<"@content0@", "@content1@", "@content2@", "@content3@">>
TailTok   == <<"content0@", "content1@", "content2@", "content3@">>

Digits == 0..(Len(MarkerTok) - 1)

\* '@content{}@'.format(n)
Marker(n) == MarkerTok[n + 1]

\* 'content{}@'.format(n)
TailMarker(n) == TailTok[n + 1]

\* '@content' in s
HasMarker(s) == \E i \in 1..Len(s) : \E n \in Digits : s[i] = Marker(n)

RECURSIVE Ascending(_)
\* list(set(ids)): CPython iterates a set of small non-negative integers in
\* ascending order
Ascending(S) ==
    IF S = {} THEN <<>>
    ELSE LET m == CHOOSE x \in S : \A y \in S : x <= y
         IN  <<m>> \o Ascending(S \ {m})

\* lines 21-23: ans_pattern.findall, int(doc[-2:-1]), list(set(...))
find_answer_in_docid(text) ==
    Ascending({n \in Digits : \E i \in 1..Len(text) : text[i] = Marker(n)})

RECURSIVE Split(_, _)
\* s.split(sep), sep one element
Split(s, sep) ==
    IF \A i \in 1..Len(s) : s[i] # sep THEN <<s>>
    ELSE LET i == CHOOSE k \in 1..Len(s) :
                      s[k] = sep /\ \A j \in 1..(k - 1) : s[j] # sep
         IN  <<SubSeq(s, 1, i - 1)>> \o Split(SubSeq(s, i + 1, Len(s)), sep)

\* documents[i] of a Python list: a negative i counts from the end
ValidIndex(docs, i) == -Len(docs) <= i /\ i < Len(docs)
DocAt(docs, i) == IF i < 0 THEN docs[Len(docs) + i + 1] ELSE docs[i + 1]

---------------------------------------------------------------------------
(* gen_mrc_dataset *)

\* the paragraphs joined last to first
ConcatDoc_Reversed(d) ==
    [keys |-> (d.keys \ {"paragraphs"}) \cup {"content"},
     paragraphs |-> <<>>,
     content |-> Join([i \in 1..Len(d.paragraphs) |->
                          d.paragraphs[Len(d.paragraphs) + 1 - i]])]

\* lines 94-96
ConcatDoc(d) ==
    [keys |-> (d.keys \ {"paragraphs"}) \cup {"content"},
     paragraphs |-> <<>>, content |-> Join(d.paragraphs)]

\* lines 107-110: the fragments of supporting_paragraph taken for document n
SupportFragments(sp, n) ==
    LET IsFragment(para_str) == para_str # <<>> /\ ~HasMarker(para_str)
        para_strs == SelectSeq(Split(sp, Marker(n)), IsFragment)
    IN  [i \in 1..Len(para_strs) |-> Remove(para_strs[i], TailMarker(n))]

\* lines 111-112: (found_sup_para, sup_start, sup_end)
SupportEntry(para_str, content) ==
    LET r == find_best_match_index(para_str, content)
    IN  <<PySlice(content, r[1], r[2] + 1), r[1], r[2]>>

\* the pieces that hold a marker of another document kept as fragments
AnswerFragments_KeepMarked(ans, n) ==
    LET answer_strs == Split(ans, Marker(n))
        stripped == [i \in 1..Len(answer_strs) |-> Strip(answer_strs[i])]
        IsFragment(answer_str) == answer_str # <<>>
        kept == SelectSeq(stripped, IsFragment)
    IN  [i \in 1..Len(kept) |-> Remove(kept[i], TailMarker(n))]

\* lines 131-136: the fragments of answer taken for document n
AnswerFragments(ans, n) ==
    LET answer_strs == Split(ans, Marker(n))
        stripped == [i \in 1..Len(answer_strs) |-> Strip(answer_strs[i])]
        IsFragment(answer_str) == answer_str # <<>> /\ ~HasMarker(answer_str)
        kept == SelectSeq(stripped, IsFragment)
    IN  [i \in 1..Len(kept) |-> Remove(kept[i], TailMarker(n))]

\* the best match starting as the first character of the first paragraph
NoBest_ZeroStart ==
    [max_rougel |-> Zero, best_start_in_sup_para |-> 0,
     best_end_in_sup_para |-> 0, best_sup_para_i |-> 0]

\* lines 139-142
NoBest ==
    [max_rougel |-> Zero, best_start_in_sup_para |-> -1,
     best_end_in_sup_para |-> -1, best_sup_para_i |-> -1]

\* a supporting paragraph replacing the best one when its confidence is as high
BetterMatch_OnTies(r, best) ==
    ScoreGT(r[3], Zero) /\ ~ScoreGT(best.max_rougel, r[3])

\* lines 145-149
BetterMatch(r, best) == ScoreGT(r[3], best.max_rougel)

RECURSIVE BestSupPara(_, _, _, _)
\* lines 143-149, from supporting paragraph i (one-based) on
BestSupPara(answer_str, doc_support_paras, i, best) ==
    IF i > Len(doc_support_paras) THEN best
    ELSE LET r == find_best_match_index(answer_str, doc_support_paras[i][1])
         IN  BestSupPara(answer_str, doc_support_paras, i + 1,
                 IF BetterMatch(r, best)
                 THEN [max_rougel |-> r[3], best_start_in_sup_para |-> r[1],
                       best_end_in_sup_para |-> r[2], best_sup_para_i |-> i - 1]
                 ELSE best)

\* a match is kept as soon as its start is set
IsLocated_StartOnly(best) == best.best_start_in_sup_para # -1

\* line 151
IsLocated(best) ==
    best.best_start_in_sup_para # -1 /\ best.best_end_in_sup_para # -1

\* the label without the offset of the supporting paragraph
LabelOf_NoShift(n, best, doc_support_paras) ==
    <<n - 1, best.best_start_in_sup_para, best.best_end_in_sup_para>>

\* lines 152-154
LabelOf(n, best, doc_support_paras) ==
    LET start_label == best.best_start_in_sup_para
                          + doc_support_paras[best.best_sup_para_i + 1][2]
        end_label == start_label
                        + (best.best_end_in_sup_para - best.best_start_in_sup_para)
    IN  <<n - 1, start_label, end_label>>

\* lines 139-154 for one fragment: what is found, and the label if one is emitted
Resolve(n, answer_str, doc_support_paras) ==
    LET best == BestSupPara(answer_str, doc_support_paras, 1, NoBest)
    IN  [docid |-> n, text |-> answer_str, best |-> best,
         labels |-> IF IsLocated(best)
                    THEN <<LabelOf(n, best, doc_support_paras)>> ELSE <<>>]

\* the labels of one document id replacing those of the ids before it
ExtendLabels_Overwrite(labels, rs) == Join([i \in 1..Len(rs) |-> rs[i].labels])

\* lines 123, 154: answer_labels is created before the loop over the document
\* ids and every label is appended to it
ExtendLabels(labels, rs) == labels \o Join([i \in 1..Len(rs) |-> rs[i].labels])

\* the slice of a label taken without its last character
FakeAnswers_EndExclusive(docs, labels) ==
    [i \in 1..Len(labels) |->
        PySlice(DocAt(docs, labels[i][1]).content, labels[i][2], labels[i][3])]

\* lines 79-80
FakeAnswers(docs, labels) ==
    [i \in 1..Len(labels) |->
        PySlice(DocAt(docs, labels[i][1]).content, labels[i][2], labels[i][3] + 1)]

\* lines 83-87
CeilRougel(fakes, answer_text) ==
    IF Len(fakes) = 0 THEN Zero ELSE RougeL(Join(fakes), answer_text)

\* The state of the variables of gen_mrc_dataset while another function runs
MrcIdle ==
    /\ documents = <<>> /\ sample_keys = {} /\ supporting_paragraph = <<>>
    /\ answer = <<>> /\ supported_paras = <<>> /\ sup_todo = <<>>
    /\ ans_todo = <<>> /\ answer_texts = <<>> /\ answer_labels = <<>>
    /\ fake_answers = <<>> /\ ceil_rougel = Zero /\ mrc_pc = "idle"
    /\ error = "none" /\ resolved = <<>>

\* lines 94-103
ConcatParagraphs ==
    /\ mrc_pc = "start"
    /\ documents' = [i \in 1..Len(documents) |-> ConcatDoc(documents[i])]
    /\ IF "answer" \notin sample_keys
       THEN mrc_pc' = "done" /\ sup_todo' = <<>>
       ELSE /\ mrc_pc' = "support"
            /\ sup_todo' = find_answer_in_docid(supporting_paragraph)
    /\ UNCHANGED <<sample_keys, supporting_paragraph, answer, supported_paras,
                   ans_todo, answer_texts, answer_labels, fake_answers,
                   ceil_rougel, error, resolved,
                   locVars, exVars, streamVars, featVars>>

\* lines 106-117, one document id of the supporting paragraph;
\* sample['documents'][sup_para_in_docid - 1] raises IndexError
LocateSupport ==
    /\ mrc_pc = "support"
    /\ sup_todo # <<>>
    /\ LET sup_para_in_docid == Head(sup_todo)
           frags == SupportFragments(supporting_paragraph, sup_para_in_docid)
       IN  IF frags # <<>> /\ ~ValidIndex(documents, sup_para_in_docid - 1)
           THEN /\ error' = "IndexError"
                /\ mrc_pc' = "raised"
                /\ UNCHANGED <<supported_paras, sup_todo>>
           ELSE /\ supported_paras' =
                     IF frags = <<>> THEN supported_paras
                     ELSE (sup_para_in_docid :>
                            [i \in 1..Len(frags) |->
                               SupportEntry(frags[i],
                                   DocAt(documents, sup_para_in_docid - 1).content)])
                          @@ supported_paras
                /\ sup_todo' = Tail(sup_todo)
                /\ UNCHANGED <<error, mrc_pc>>
    /\ UNCHANGED <<documents, sample_keys, supporting_paragraph, answer,
                   ans_todo, answer_texts, answer_labels, fake_answers,
                   ceil_rougel, resolved,
                   locVars, exVars, streamVars, featVars>>

\* lines 119-123
ParseAnswer ==
    /\ mrc_pc = "support"
    /\ sup_todo = <<>>
    /\ ans_todo' = find_answer_in_docid(answer)
    /\ mrc_pc' = "answer"
    /\ UNCHANGED <<documents, sample_keys, supporting_paragraph, answer,
                   supported_paras, sup_todo, answer_texts, answer_labels,
                   fake_answers, ceil_rougel, error, resolved,
                   locVars, exVars, streamVars, featVars>>

\* lines 124-158, one document id of the answer;
\* supported_paras[ans_in_docid] raises KeyError
ResolveAnswers ==
    /\ mrc_pc = "answer"
    /\ ans_todo # <<>>
    /\ LET ans_in_docid == Head(ans_todo)
       IN  IF ans_in_docid \notin DOMAIN supported_paras
           THEN /\ error' = "KeyError"
                /\ mrc_pc' = "raised"
                /\ UNCHANGED <<ans_todo, answer_texts, answer_labels, sample_keys,
                               fake_answers, ceil_rougel, resolved>>
           ELSE LET frags == AnswerFragments(answer, ans_in_docid)
                    rs == [i \in 1..Len(frags) |->
                             Resolve(ans_in_docid, frags[i],
                                     supported_paras[ans_in_docid])]
                    labels == ExtendLabels(answer_labels, rs)
                    texts == answer_texts \o frags
                    fakes == FakeAnswers(documents, labels)
                IN  /\ answer_texts' = texts
                    /\ answer_labels' = labels
                    /\ resolved' = resolved \o rs
                    /\ sample_keys' = sample_keys
                          \cup {"answer_labels", "fake_answers", "ceil_rougel"}
                    /\ fake_answers' = fakes
                    /\ ceil_rougel' = CeilRougel(fakes, Join(texts))
                    /\ ans_todo' = Tail(ans_todo)
                    /\ UNCHANGED <<error, mrc_pc>>
    /\ UNCHANGED <<documents, supporting_paragraph, answer, supported_paras,
                   sup_todo,
                   locVars, exVars, streamVars, featVars>>

\* line 124: the loop over ans_in_docids is exhausted
Return ==
    /\ mrc_pc = "answer"
    /\ ans_todo = <<>>
    /\ mrc_pc' = "done"
    /\ UNCHANGED <<documents, sample_keys, supporting_paragraph, answer,
                   supported_paras, sup_todo, ans_todo, answer_texts,
                   answer_labels, fake_answers, ceil_rougel, error, resolved,
                   locVars, exVars, streamVars, featVars>>

---------------------------------------------------------------------------
(* The samples gen_mrc_dataset is run on *)

MaxSupSegs == 2
MaxAnsSegs == 2

Doc(paras) ==
    [keys |-> {"title", "paragraphs"}, paragraphs |-> paras, content |-> <<>>]

\* '@contentN@' + fragment + '@contentN@'
Wrapped(n, fragment) == <<Marker(n)>> \o fragment \o <<Marker(n)>>

Doc1 == Doc(<< <<"a", "b", FullStop>>, <<"b", "a">> >>)
Doc2 == Doc(<< <<"b">>, <<"b", "a">> >>)

DocumentsPool == { <<Doc1>>, <<Doc1, Doc2>> }

\* Pieces of supporting_paragraph: fragments found verbatim, found only by
\* the fallback search or after trimming, of documents 1 and 2 and of the
\* digit 0, the last one outside any marker pair
SupSegPool ==
    { Wrapped(1, <<"b", FullStop, "b">>),
      Wrapped(1, <<"a", "a">>),
      Wrapped(2, <<"b", "a">>),
      Wrapped(0, <<"b", "a">>),
      <<"b", "a", FullStop>> }

\* Pieces of answer, the last two with a text outside any marker pair
AnsSegPool ==
    { Wrapped(1, <<"b">>),
      Wrapped(1, <<Space, FullStop, "b">>),
      Wrapped(1, <<"b", "b">>),
      Wrapped(2, <<FullStop>>),
      Wrapped(2, <<"a">>),
      Wrapped(0, <<"a">>),
      <<"a">>,
      <<"a">> \o Wrapped(2, <<"a">>) }

SegTexts(pool, k) == {Join(q) : q \in UNION {[1..j -> pool] : j \in 0..k}}

\* The sample of the specification's end-to-end scenario
ScenarioDocuments ==
    << Doc(<< <<"bei", "jing", "shi", "zhong", "guo", "de", "shou", "du", FullStop>>,
              <<"shang", "hai", "shi", "jing2", "ji", "zhong", "xin", FullStop>> >>) >>
ScenarioSupport ==
    Wrapped(1, <<"bei", "jing", "shi", "zhong", "guo", "de", "shou", "du", FullStop>>)
ScenarioAnswer == Wrapped(1, <<"bei", "jing">>)

\* <<documents, supporting_paragraph, answer>> of the samples with an answer
TrainSamples ==
    (DocumentsPool \X SegTexts(SupSegPool, MaxSupSegs)
                   \X SegTexts(AnsSegPool, MaxAnsSegs))
        \cup { <<ScenarioDocuments, ScenarioSupport, ScenarioAnswer>> }

\* the documents of the samples without an answer
TestSamples == DocumentsPool

MrcInit ==
    /\ \/ /\ \E t \in TrainSamples :
                /\ documents = t[1]
                /\ supporting_paragraph = t[2]
                /\ answer = t[3]
          /\ sample_keys = {"documents", "supporting_paragraph", "answer"}
       \/ /\ documents \in TestSamples
          /\ supporting_paragraph = <<>> /\ answer = <<>>
          /\ sample_keys = {"documents"}
    /\ supported_paras = <<>> /\ sup_todo = <<>> /\ ans_todo = <<>>
    /\ answer_texts = <<>> /\ answer_labels = <<>> /\ fake_answers = <<>>
    /\ ceil_rougel = Zero /\ mrc_pc = "start" /\ error = "none"
    /\ resolved = <<>>

---------------------------------------------------------------------------
(* extract_paragraph, one document of the sample.  A token is a pair        *)
(* <<paragraph index, position>>, the title being paragraph -1; the match    *)
(* scores of metric_max_over_ground_truths are inputs.                       *)

MaxParas    == 3
MaxParaLen  == 2
MaxTitleLen == 1
MaxBudget   == 8

\* The values a match score takes
Scores == {0, 1}

\* line 47
splitter == <<-2, 0>>

Tokens(p_idx, n) == [j \in 1..n |-> <<p_idx, j>>]

\* The per-token features of the earlier stages: the part-of-speech tag, the
\* keyword weight and the word-in-question flag of token <<p_idx, j>> are
\* written <<POS, p_idx, j>>, <<KEYWORD, p_idx, j>>, <<IN_QUESTION, p_idx, j>>
POS == 1
KEYWORD == 2
IN_QUESTION == 3
Features(f, p_idx, n) == [j \in 1..n |-> <<f, p_idx, j>>]

\* lines 108, 112: the 0 put after each paragraph of the keyword and
\* word-in-question lists, written as a tuple like the feature values
zero == <<0>>

ExIdle ==
    /\ doc = <<>> /\ max_doc_len = 0 /\ selection = <<>> /\ passage = <<>>
    /\ ex_pc = "idle"

ExtractInit ==
    /\ \E t \in 0..MaxTitleLen, n \in 0..MaxParas :
         \E lens \in [1..n -> 0..MaxParaLen], scores \in [1..n -> Scores],
            title_score \in Scores :
            doc = [segmented_title |-> Tokens(-1, t),
                   segmented_paragraphs |-> [i \in 1..n |-> Tokens(i - 1, lens[i])],
                   pos_title |-> Features(POS, -1, t),
                   pos_paragraphs |->
                       [i \in 1..n |-> Features(POS, i - 1, lens[i])],
                   keyword_title |-> Features(KEYWORD, -1, t),
                   keyword_paragraphs |->
                       [i \in 1..n |-> Features(KEYWORD, i - 1, lens[i])],
                   title_word_in_question |-> Features(IN_QUESTION, -1, t),
                   paragraphs_word_in_question |->
                       [i \in 1..n |-> Features(IN_QUESTION, i - 1, lens[i])],
                   para_match_scores |-> scores,
                   title_match_score |-> title_score]
    /\ max_doc_len \in 0..MaxBudget
    /\ selection = <<>> /\ passage = <<>> /\ ex_pc = "start"

\* the order of the match score alone
KeyBefore_ScoreOnly(x, y) == x[1] > y[1]

\* line 65: the order of the key (-match score, length)
KeyBefore(x, y) == x[1] > y[1] \/ (x[1] = y[1] /\ x[2] < y[2])

RECURSIVE SortInfos(_)
\* line 65: list.sort is stable, entries of equal key keep their order
SortInfos(infos) ==
    IF Len(infos) = 0 THEN <<>>
    ELSE LET i == CHOOSE k \in 1..Len(infos) :
                      /\ \A j \in 1..Len(infos) : ~KeyBefore(infos[j], infos[k])
                      /\ \A j \in 1..(k - 1) : KeyBefore(infos[k], infos[j])
             rest == [j \in 1..(Len(infos) - 1) |->
                         IF j < i THEN infos[j] ELSE infos[j + 1]]
         IN  <<infos[i]>> \o SortInfos(rest)

RECURSIVE SortIds(_)
\* line 80
SortIds(ids) ==
    IF Len(ids) = 0 THEN <<>>
    ELSE LET i == CHOOSE k \in 1..Len(ids) : \A j \in 1..Len(ids) : ids[k] <= ids[j]
             rest == [j \in 1..(Len(ids) - 1) |->
                         IF j < i THEN ids[j] ELSE ids[j + 1]]
         IN  <<ids[i]>> \o SortIds(rest)

\* lines 56-67
RankParagraphs ==
    /\ ex_pc = "start"
    /\ selection' =
         [para_infos |->
              SortInfos([i \in 1..Len(doc.segmented_paragraphs) |->
                  <<doc.para_match_scores[i], Len(doc.segmented_paragraphs[i]), i - 1>>]),
          last_para_id |-> -1, last_para_cut_idx |-> -1,
          selected_para_ids |-> <<>>,
          selected_para_len |-> Len(doc.segmented_title) + 1]
    /\ ex_pc' = "select"
    /\ UNCHANGED <<doc, max_doc_len, passage, locVars, mrcVars, streamVars, featVars>>

\* line 70
AddedLen(sel) ==
    sel.selected_para_len + Len(doc.segmented_paragraphs[Head(sel.para_infos)[3] + 1]) + 1

\* line 71
Fits(len, budget) == len <= budget

\* a cut that keeps one token more
CutIdx_OffByOne(budget, len) == budget - len + 2

\* line 76
CutIdx(budget, len) == budget - len + 1

\* lines 68-72: the next paragraph of the order fits the budget
AcceptParagraph ==
    /\ ex_pc = "select"
    /\ selection.para_infos # <<>>
    /\ Fits(AddedLen(selection), max_doc_len)
    /\ selection' = [selection EXCEPT
           !.para_infos = Tail(@),
           !.selected_para_len = AddedLen(selection),
           !.selected_para_ids = Append(@, Head(selection.para_infos)[3])]
    /\ UNCHANGED <<doc, max_doc_len, passage, ex_pc, locVars, mrcVars, streamVars, featVars>>

\* lines 73-77: it does not fit, the loop is left
CutParagraph ==
    /\ ex_pc = "select"
    /\ selection.para_infos # <<>>
    /\ ~Fits(AddedLen(selection), max_doc_len)
    /\ selection' = [selection EXCEPT
           !.selected_para_len = AddedLen(selection),
           !.last_para_id = Head(selection.para_infos)[3],
           !.last_para_cut_idx = CutIdx(max_doc_len, AddedLen(selection))]
    /\ ex_pc' = "build"
    /\ UNCHANGED <<doc, max_doc_len, passage, locVars, mrcVars, streamVars, featVars>>

\* line 68: the loop is exhausted
EndSelection ==
    /\ ex_pc = "select"
    /\ selection.para_infos = <<>>
    /\ ex_pc' = "build"
    /\ UNCHANGED <<doc, max_doc_len, selection, passage, locVars, mrcVars, streamVars, featVars>>

\* lines 80-90: the ids of the paragraphs of the passage, the title first,
\* in the order in which they are concatenated
PassageParaIds(sel) ==
    <<-1>> \o SortIds(sel.selected_para_ids)
           \o (IF sel.last_para_id > -1 THEN <<sel.last_para_id>> ELSE <<>>)

\* lines 82, 89-90: the token lists that are concatenated
PassageParas(sel) ==
    <<doc.segmented_title>>
        \o [i \in 1..Len(sel.selected_para_ids) |->
               doc.segmented_paragraphs[SortIds(sel.selected_para_ids)[i] + 1]]
        \o (IF sel.last_para_id > -1
            THEN <<PySlice(doc.segmented_paragraphs[sel.last_para_id + 1],
                           0, sel.last_para_cut_idx)>>
            ELSE <<>>)

\* the feature list of the paragraph that did not fit kept whole
FeatureParas_WholeLast(sel, title, paras) ==
    <<title>>
        \o [i \in 1..Len(sel.selected_para_ids) |->
               paras[SortIds(sel.selected_para_ids)[i] + 1]]
        \o (IF sel.last_para_id > -1 THEN <<paras[sel.last_para_id + 1]>> ELSE <<>>)

\* lines 84-86, 93-95: the feature lists that are concatenated, title and
\* paras being the lists of one feature
FeatureParas(sel, title, paras) ==
    <<title>>
        \o [i \in 1..Len(sel.selected_para_ids) |->
               paras[SortIds(sel.selected_para_ids)[i] + 1]]
        \o (IF sel.last_para_id > -1
            THEN <<PySlice(paras[sel.last_para_id + 1], 0, sel.last_para_cut_idx)>>
            ELSE <<>>)

RECURSIVE ConcatWithPad(_, _)
\* lines 102-112: each list followed by the pad
ConcatWithPad(paras, pad) ==
    IF Len(paras) = 0 THEN <<>>
    ELSE Head(paras) \o <<pad>> \o ConcatWithPad(Tail(paras), pad)

\* lines 116-119: s[:-1]
DropLast(s) == SubSeq(s, 1, Len(s) - 1)

RECURSIVE ConcatWithSplitter(_)
\* lines 98-100
ConcatWithSplitter(paras) ==
    IF Len(paras) = 0 THEN <<>>
    ELSE Head(paras) \o <<splitter>> \o ConcatWithSplitter(Tail(paras))

\* the last position of the maximum, zero-based
IndexOfMax_Last(xs) ==
    (CHOOSE i \in 1..Len(xs) :
        /\ \A j \in 1..Len(xs) : xs[j] <= xs[i]
        /\ \A j \in (i + 1)..Len(xs) : xs[j] < xs[i]) - 1

\* list.index(max(list)), zero-based
IndexOfMax(xs) ==
    (CHOOSE i \in 1..Len(xs) :
        /\ \A j \in 1..Len(xs) : xs[j] <= xs[i]
        /\ \A j \in 1..(i - 1) : xs[j] < xs[i]) - 1

\* lines 79-121; the score of a truncated paragraph is computed anew (line 92)
BuildPassage ==
    /\ ex_pc = "build"
    /\ \E cut_score \in Scores :
         LET ids == SortIds(selection.selected_para_ids)
             paragraph_match_scores ==
                 <<doc.title_match_score>>
                    \o [i \in 1..Len(ids) |-> doc.para_match_scores[ids[i] + 1]]
                    \o (IF selection.last_para_id > -1 THEN <<cut_score>> ELSE <<>>)
             segmented_passage == ConcatWithSplitter(PassageParas(selection))
         IN  passage' =
                 [segmented_passage |->
                      SubSeq(segmented_passage, 1, Len(segmented_passage) - 1),
                  pos_passage |->
                      DropLast(ConcatWithPad(
                          FeatureParas(selection, doc.pos_title, doc.pos_paragraphs),
                          splitter)),
                  keyword_passage |->
                      DropLast(ConcatWithPad(
                          FeatureParas(selection, doc.keyword_title,
                                       doc.keyword_paragraphs),
                          zero)),
                  passage_word_in_question |->
                      DropLast(ConcatWithPad(
                          FeatureParas(selection, doc.title_word_in_question,
                                       doc.paragraphs_word_in_question),
                          zero)),
                  para_ids |-> PassageParaIds(selection),
                  paragraph_match_score |-> paragraph_match_scores,
                  most_related_para_id |-> IndexOfMax(paragraph_match_scores),
                  title_len |-> Len(doc.segmented_title)]
    /\ selection' = [selection EXCEPT
           !.selected_para_ids = SortIds(selection.selected_para_ids)]
    /\ ex_pc' = "done"
    /\ UNCHANGED <<doc, max_doc_len, locVars, mrcVars, streamVars, featVars>>

---------------------------------------------------------------------------
(* The loop over sys.stdin of 3.gen_mrc_dataset.py and 3.extract_paragraph.py. *)
(* A line is described by what the loop asks of it: whether it starts with   *)
(* '{', whether json.loads accepts it, and whether the function called on    *)
(* the sample raises.                                                        *)

MaxLines == 3

Lines == [starts_brace : BOOLEAN, valid_json : BOOLEAN, raises : BOOLEAN]

StreamIdle ==
    /\ stdin = <<>> /\ line_no = 0 /\ stdout = <<>>
    /\ stream_pc = "idle" /\ stream_error = "none"

StreamInit ==
    /\ stdin \in UNION {[1..k -> Lines] : k \in 0..MaxLines}
    /\ line_no = 0 /\ stdout = <<>>
    /\ stream_pc = "loop" /\ stream_error = "none"

\* the line the loop is at
CurrentLine == stdin[line_no + 1]

\* lines 163-164: a line that does not start with '{' is passed over
SkipLine ==
    /\ stream_pc = "loop" /\ line_no < Len(stdin)
    /\ ~CurrentLine.starts_brace
    /\ line_no' = line_no + 1
    /\ UNCHANGED <<stdin, stdout, stream_pc, stream_error, locVars, mrcVars, exVars, featVars>>

\* line 166: json.loads raises on a line that is not valid JSON
ParseError ==
    /\ stream_pc = "loop" /\ line_no < Len(stdin)
    /\ CurrentLine.starts_brace /\ ~CurrentLine.valid_json
    /\ stream_pc' = "aborted" /\ stream_error' = "JSONDecodeError"
    /\ UNCHANGED <<stdin, line_no, stdout, locVars, mrcVars, exVars, featVars>>

\* line 168: the function called on the sample raises
SampleError ==
    /\ stream_pc = "loop" /\ line_no < Len(stdin)
    /\ CurrentLine.starts_brace /\ CurrentLine.valid_json /\ CurrentLine.raises
    /\ stream_pc' = "aborted" /\ stream_error' = "KeyError"
    /\ UNCHANGED <<stdin, line_no, stdout, locVars, mrcVars, exVars, featVars>>

\* lines 166-169: the sample of the line is processed and printed
ProcessLine ==
    /\ stream_pc = "loop" /\ line_no < Len(stdin)
    /\ CurrentLine.starts_brace /\ CurrentLine.valid_json /\ ~CurrentLine.raises
    /\ stdout' = Append(stdout, line_no + 1)
    /\ line_no' = line_no + 1
    /\ UNCHANGED <<stdin, stream_pc, stream_error, locVars, mrcVars, exVars, featVars>>

\* line 162: sys.stdin is exhausted
EndOfInput ==
    /\ stream_pc = "loop" /\ line_no = Len(stdin)
    /\ stream_pc' = "eof"
    /\ UNCHANGED <<stdin, line_no, stdout, stream_error, locVars, mrcVars, exVars, featVars>>

---------------------------------------------------------------------------
(* extract_match_features of 2.2.gen_match_features.py, one document.  The  *)
(* content is cut into sentences at the delimiters U+FF0C (Comma), U+3002    *)
(* (FullStop) and U+FF01 (Bang); every feature list is extended by the same  *)
(* number of entries per sentence, so one list stands for all of them, and   *)
(* an entry is the index of the sentence whose value it holds.               *)

MaxContentLen == 3

Comma == "CM"

\* line 21, 34: the delimiters of the pattern and of the set
Delimiters == {Comma, FullStop, Bang}

ContentAlphabet == {"a"} \cup Delimiters

RECURSIVE ReSplit(_)
\* line 21: re.split('[...]', s), one piece more than there are delimiters
ReSplit(s) ==
    IF \A i \in 1..Len(s) : s[i] \notin Delimiters THEN <<s>>
    ELSE LET i == CHOOSE k \in 1..Len(s) :
                      s[k] \in Delimiters /\ \A j \in 1..(k - 1) : s[j] \notin Delimiters
         IN  <<SubSeq(s, 1, i - 1)>> \o ReSplit(SubSeq(s, i + 1, Len(s)))

\* lines 32-35: the number of entries added for sentence i (from 0)
SentLen(c, ss, i) ==
    IF i = Len(ss) - 1 /\ c[Len(c)] \in Delimiters
    THEN Len(ss[i + 1]) + 1 - 1
    ELSE Len(ss[i + 1]) + 1

\* [value] * n
Repeat(value, n) == [k \in 1..n |-> value]

MatchIdle ==
    /\ match_content = <<>> /\ sents = <<>> /\ sent_i = 0
    /\ levenshtein_dist = <<>> /\ match_pc = "idle" /\ match_error = "none"

MatchInit ==
    /\ match_content \in Texts(ContentAlphabet, MaxContentLen)
    /\ sents = <<>> /\ sent_i = 0 /\ levenshtein_dist = <<>>
    /\ match_pc = "start" /\ match_error = "none"

\* lines 21-28
SplitSentences ==
    /\ match_pc = "start"
    /\ sents' = ReSplit(match_content)
    /\ sent_i' = 0
    /\ levenshtein_dist' = <<>>
    /\ match_pc' = "loop"
    /\ UNCHANGED <<match_content, match_error, entVars,
                   locVars, mrcVars, exVars, streamVars>>

\* lines 30-62, one sentence; doc['content'][-1] raises IndexError on an
\* empty content
ExtendFeatures ==
    /\ match_pc = "loop"
    /\ sent_i < Len(sents)
    /\ IF sent_i = Len(sents) - 1 /\ match_content = <<>>
       THEN /\ match_error' = "IndexError"
            /\ match_pc' = "raised"
            /\ UNCHANGED <<sent_i, levenshtein_dist>>
       ELSE /\ levenshtein_dist' =
                  levenshtein_dist
                      \o Repeat(sent_i, SentLen(match_content, sents, sent_i))
            /\ sent_i' = sent_i + 1
            /\ UNCHANGED <<match_error, match_pc>>
    /\ UNCHANGED <<match_content, sents, entVars,
                   locVars, mrcVars, exVars, streamVars>>

\* line 30: the loop over the sentences is exhausted
MatchReturn ==
    /\ match_pc = "loop"
    /\ sent_i = Len(sents)
    /\ match_pc' = "done"
    /\ UNCHANGED <<match_content, sents, sent_i, levenshtein_dist, match_error,
                   entVars, locVars, mrcVars, exVars, streamVars>>

---------------------------------------------------------------------------
(* extract_text_features of 5.1.gen_text_features.py, the loop that gives   *)
(* every character of the text the type of the entity it lies in.  An       *)
(* entity of fool.analysis is <<start, end, type, text>>.                   *)

MaxTextLen  == 3
MaxEntities == 2

EntityTypes == {"time", "person"}

\* the texts of the entities, of one or two characters
EntityTexts == {<<"e">>, <<"e", "e">>}

EntityPool ==
    {<<s, s + Len(t), ty, t>> : s \in 0..(MaxTextLen - 1), ty \in EntityTypes,
                                 t \in EntityTexts}

\* line 40: entities[entity_i][0] <= char_i < entities[entity_i][0] + len(entities[entity_i][3]),
\* taken with its end included
InEntity_EndIncluded(e, c) == e[1] <= c /\ c <= e[1] + Len(e[4])

\* line 40
InEntity(e, c) == e[1] <= c /\ c < e[1] + Len(e[4])

EntIdle ==
    /\ ent_text = <<>> /\ entities = <<>> /\ char_i = 0 /\ entity_i = 0
    /\ char_entity = <<>> /\ ent_pc = "idle"

FeatIdle == MatchIdle /\ EntIdle

\* lines 26-31
EntInit ==
    /\ ent_text \in Texts({"a"}, MaxTextLen)
    /\ entities \in UNION {[1..k -> EntityPool] : k \in 0..MaxEntities}
    /\ char_i = 0 /\ entity_i = 0 /\ char_entity = <<>>
    /\ ent_pc = "loop"

\* lines 33-36: no entity is left
NoEntityLeft ==
    /\ ent_pc = "loop" /\ char_i < Len(ent_text)
    /\ entity_i = Len(entities)
    /\ char_entity' = Append(char_entity, "")
    /\ char_i' = char_i + 1
    /\ UNCHANGED <<ent_text, entities, entity_i, ent_pc, matchVars,
                   locVars, mrcVars, exVars, streamVars>>

\* lines 37-39: the character is before the entity
BeforeEntity ==
    /\ ent_pc = "loop" /\ char_i < Len(ent_text)
    /\ entity_i # Len(entities)
    /\ char_i < entities[entity_i + 1][1]
    /\ char_entity' = Append(char_entity, "")
    /\ char_i' = char_i + 1
    /\ UNCHANGED <<ent_text, entities, entity_i, ent_pc, matchVars,
                   locVars, mrcVars, exVars, streamVars>>

\* lines 40-42: the character is inside the entity
InsideEntity ==
    /\ ent_pc = "loop" /\ char_i < Len(ent_text)
    /\ entity_i # Len(entities)
    /\ ~(char_i < entities[entity_i + 1][1])
    /\ InEntity(entities[entity_i + 1], char_i)
    /\ char_entity' = Append(char_entity, entities[entity_i + 1][3])
    /\ char_i' = char_i + 1
    /\ UNCHANGED <<ent_text, entities, entity_i, ent_pc, matchVars,
                   locVars, mrcVars, exVars, streamVars>>

\* lines 43-44: the character is past the entity
NextEntity ==
    /\ ent_pc = "loop" /\ char_i < Len(ent_text)
    /\ entity_i # Len(entities)
    /\ ~(char_i < entities[entity_i + 1][1])
    /\ ~InEntity(entities[entity_i + 1], char_i)
    /\ entity_i' = entity_i + 1
    /\ UNCHANGED <<ent_text, entities, char_i, char_entity, ent_pc, matchVars,
                   locVars, mrcVars, exVars, streamVars>>

\* line 32: char_i has reached len(text)
ProjectionDone ==
    /\ ent_pc = "loop" /\ char_i >= Len(ent_text)
    /\ ent_pc' = "done"
    /\ UNCHANGED <<ent_text, entities, char_i, entity_i, char_entity, matchVars,
                   locVars, mrcVars, exVars, streamVars>>

---------------------------------------------------------------------------
(* Specifications *)

\* gen_mrc_dataset on one sample
Init == MrcInit /\ LocIdle /\ ExIdle /\ StreamIdle /\ FeatIdle

Next ==
    \/ ConcatParagraphs
    \/ LocateSupport
    \/ ParseAnswer
    \/ ResolveAnswers
    \/ Return

Spec == Init /\ [][Next]_vars

\* find_best_match_index on one pair of texts
LocateInit ==
    /\ \E t \in LocateInputs : sub_text = t[1] /\ doc_content = t[2]
    /\ loc_pc = "call" /\ search = SearchInit(<<>>) /\ result = NoResult
    /\ MrcIdle /\ ExIdle /\ StreamIdle /\ FeatIdle

LocateNext ==
    \/ ExactMatch
    \/ TrimmedMatch
    \/ StrippedMatch
    \/ FallbackBegin
    \/ FallbackStep
    \/ FallbackReturn

SpecLocate == LocateInit /\ [][LocateNext]_vars

\* extract_paragraph on one document
ExInit == ExtractInit /\ LocIdle /\ MrcIdle /\ StreamIdle /\ FeatIdle

ExNext ==
    \/ RankParagraphs
    \/ AcceptParagraph
    \/ CutParagraph
    \/ EndSelection
    \/ BuildPassage

SpecExtract == ExInit /\ [][ExNext]_vars

\* the stream loop on one input
StreamStart == StreamInit /\ LocIdle /\ MrcIdle /\ ExIdle /\ FeatIdle

StreamNext ==
    \/ SkipLine
    \/ ParseError
    \/ SampleError
    \/ ProcessLine
    \/ EndOfInput

SpecStream == StreamStart /\ [][StreamNext]_vars

\* extract_match_features on one document
MatchStart ==
    /\ MatchInit /\ EntIdle /\ LocIdle /\ MrcIdle /\ ExIdle /\ StreamIdle

MatchNext ==
    \/ SplitSentences
    \/ ExtendFeatures
    \/ MatchReturn

SpecMatch == MatchStart /\ [][MatchNext]_vars

\* the entity loop of extract_text_features on one text
EntStart ==
    /\ EntInit /\ MatchIdle /\ LocIdle /\ MrcIdle /\ ExIdle /\ StreamIdle

EntNext ==
    \/ NoEntityLeft
    \/ BeforeEntity
    \/ InsideEntity
    \/ NextEntity
    \/ ProjectionDone

SpecEntities == EntStart /\ [][EntNext]_vars

\* the loop runs on as long as it has a step to take
SpecEntitiesFair == SpecEntities /\ WF_vars(EntNext)

---------------------------------------------------------------------------
(* Properties of find_best_match_index, under SpecLocate *)

\* text t occurs in s at offset i and at no smaller offset
FirstAt(t, s, i) ==
    /\ 0 <= i /\ i + Len(t) <= Len(s)
    /\ SubSeq(s, i + 1, i + Len(t)) = t
    /\ \A j \in 0..(i - 1) : SubSeq(s, j + 1, j + Len(t)) # t

\* the returned triple is the first occurrence of t, end inclusive, confidence 1
ReturnsFirst(t) ==
    /\ FirstAt(t, doc_content, result[1])
    /\ result[2] = result[1] + Len(t) - 1
    /\ result[3] = One

Front(s) == SubSeq(s, 1, Len(s) - 1)

\* C1: a fragment that is a substring of the container is returned at its
\* first occurrence, end = start + len(fragment) - 1, confidence 1.
C1_ExactContainment ==
    (loc_pc = "returned" /\ Contains(doc_content, sub_text))
        => ReturnsFirst(sub_text)

C1_Witness ==
    /\ loc_pc = "returned"
    /\ Contains(doc_content, sub_text)
    /\ Len(sub_text) >= 2
    /\ result[1] > 0
    /\ \E j \in (result[1] + 1)..Len(doc_content) :
           FirstAt(sub_text, SubSeq(doc_content, j + 1, Len(doc_content)), 0)

\* The sentence-final punctuation marks of the alphabet
SentenceFinal == {FullStop, Bang}

\* C4 as stated: a fragment ending with any sentence-final punctuation mark,
\* not contained itself, whose trimmed form is contained, is returned as the
\* first occurrence of the trimmed form with confidence 1 (stated here for a
\* trimmed form that is not empty).
C4_AnySentenceFinalMark ==
    (/\ loc_pc = "returned"
     /\ Len(sub_text) > 1 /\ sub_text[Len(sub_text)] \in SentenceFinal
     /\ ~Contains(doc_content, sub_text)
     /\ Contains(doc_content, Front(sub_text)))
        => ReturnsFirst(Front(sub_text))

\* C4 amended: the same for a fragment ending with the ideographic full stop
\* U+3002, the one mark the function trims; the example call returns (2, 4, 1).
C4_TrimmedFullStop ==
    /\ (/\ loc_pc = "returned"
        /\ EndsWith(sub_text, FullStop)
        /\ ~Contains(doc_content, sub_text)
        /\ Contains(doc_content, Front(sub_text)))
           => ReturnsFirst(Front(sub_text))
    /\ (/\ loc_pc = "returned"
        /\ sub_text = <<"bei", "jing", "shi", FullStop>>
        /\ doc_content = <<"ta", "zai", "bei", "jing", "shi", "gong", "zuo">>)
           => result = <<2, 4, One>>

C4_Witness ==
    /\ loc_pc = "returned"
    /\ EndsWith(sub_text, FullStop)
    /\ ~Contains(doc_content, sub_text)
    /\ Contains(doc_content, Front(sub_text))
    /\ Len(sub_text) = 3
    /\ result = <<1, 2, One>>

\* s without any whitespace character
WithoutWhitespace(s) == LET Keep(x) == x \notin Whitespace IN SelectSeq(s, Keep)

\* no trimmed form of the fragment is contained
NoTrimmedForm(marks) ==
    ~(/\ Len(sub_text) > 0 /\ sub_text[Len(sub_text)] \in marks
      /\ Contains(doc_content, Front(sub_text)))

\* C5 as stated: when neither the fragment nor its punctuation-trimmed form is
\* contained but the fragment without all its whitespace characters is, the
\* first occurrence of that form is returned with confidence 1 (stated here
\* for a form that is not empty).
C5_AllWhitespaceRemoved ==
    (/\ loc_pc = "returned"
     /\ WithoutWhitespace(sub_text) # <<>>
     /\ ~Contains(doc_content, sub_text)
     /\ NoTrimmedForm(SentenceFinal)
     /\ Contains(doc_content, WithoutWhitespace(sub_text)))
        => ReturnsFirst(WithoutWhitespace(sub_text))

\* C5 amended: the same for the fragment without its space characters ' '
\* (other whitespace is kept), the trimmed form being that of U+3002.
C5_SpacesRemoved ==
    (/\ loc_pc = "returned"
     /\ ~Contains(doc_content, sub_text)
     /\ NoTrimmedForm({FullStop})
     /\ Contains(doc_content, Remove(sub_text, Space)))
        => ReturnsFirst(Remove(sub_text, Space))

C5_Witness ==
    /\ loc_pc = "returned"
    /\ ~Contains(doc_content, sub_text)
    /\ NoTrimmedForm({FullStop})
    /\ sub_text = <<"b", Space, "a">>
    /\ result = <<1, 2, One>>

\* no window doc_content[i..j] scores above 0 against the fragment
NoWindowScores ==
    \A i \in 1..Len(doc_content) : \A j \in i..Len(doc_content) :
        RougeL(SubSeq(doc_content, i, j), sub_text) = Zero

\* C6: whenever no window of the container scores above 0 against the
\* fragment (in particular when they share no character) the call returns
\* (-1, -1, 0); stated here for a fragment that is not empty.
C6_NoMatch ==
    (loc_pc = "returned" /\ sub_text # <<>> /\ NoWindowScores)
        => result = <<-1, -1, Zero>>

\* the call went through the fallback search
ViaFallback ==
    /\ ~IsExact(sub_text, doc_content)
    /\ ~IsTrimmed(sub_text, doc_content)
    /\ ~IsStripped(sub_text, doc_content)

\* C18: when the fallback search has returned, the outer loop has been at
\* every position of the container whose character is one of the fragment's.
C18_EveryStartTried ==
    (loc_pc = "returned" /\ ViaFallback)
        => \A i \in 0..(Len(doc_content) - 1) :
               doc_content[i + 1] \in CharSet(sub_text) => i < search.start_idx

\* the windows the fallback search has scored, in the order of their scoring
Evaluated == search.evaluated

\* the fallback search has returned
FallbackReturned == loc_pc = "returned" /\ ViaFallback

\* v is scored before w: smaller start, then larger end
ScoredBefore(v, w) ==
    v.start < w.start \/ (v.start = w.start /\ v.end > w.end)

\* the first of the windows ev that has the highest score of all
FirstBest(ev) ==
    CHOOSE k \in 1..Len(ev) :
        /\ \A j \in 1..Len(ev) : ~ScoreGT(ev[j].score, ev[k].score)
        /\ \A j \in 1..(k - 1) : ScoreGT(ev[k].score, ev[j].score)

\* C21: the fallback search returns the highest score of the windows it has
\* scored, with the window scored first among those of that score (smallest
\* start, then largest end); a later window of the same score has not
\* replaced it.
C21_FirstMaximum ==
    (FallbackReturned /\ Evaluated # <<>>) =>
        LET ev == Evaluated
            k == FirstBest(ev)
        IN  /\ \A i, j \in 1..Len(ev) : i < j => ScoredBefore(ev[i], ev[j])
            /\ \A i \in 1..Len(ev) :
                   ev[i].score =
                       RougeL(SubSeq(doc_content, ev[i].start + 1, ev[i].end + 1),
                              sub_text)
            /\ result = <<ev[k].start, ev[k].end, ev[k].score>>

\* the search has returned the first of two windows of the highest score,
\* after a window of a lower score had been the best one
C21_Witness ==
    /\ FallbackReturned
    /\ \E i, j, l \in 1..Len(Evaluated) :
           /\ l < i /\ i < j
           /\ ScoreGT(Evaluated[i].score, Evaluated[l].score)
           /\ ScoreEQ(Evaluated[i].score, Evaluated[j].score)
           /\ result = <<Evaluated[i].start, Evaluated[i].end, Evaluated[i].score>>

\* window i of ev became the best one when it was scored
Improved(ev, i) ==
    /\ ScoreGT(ev[i].score, Zero)
    /\ \A l \in 1..(i - 1) : ScoreGT(ev[i].score, ev[l].score)

\* the best end found among the windows ev[1..j-1], len(container) - 1 when
\* none of them became the best one
BestEndBefore(ev, j) ==
    IF \E i \in 1..(j - 1) : Improved(ev, i)
    THEN LET i == CHOOSE i \in 1..(j - 1) :
                      /\ Improved(ev, i)
                      /\ \A l \in (i + 1)..(j - 1) : ~Improved(ev, l)
         IN  ev[i].end
    ELSE Len(doc_content) - 1

\* C22: in the fallback search the end ceiling last_end_in_sub_text is
\* len(container) - 1 until a window becomes the best one and the best end
\* found so far afterwards; it never increases, and every window is scored
\* with an end that is not after the ceiling of that moment.
C22_CeilingNeverRises ==
    (loc_pc = "search" \/ FallbackReturned) =>
        LET ev == Evaluated
            n == Len(ev)
        IN  /\ search.last_end_in_sub_text = BestEndBefore(ev, n + 1)
            /\ \A j \in 1..n :
                   /\ ev[j].ceiling = BestEndBefore(ev, j)
                   /\ ev[j].end <= ev[j].ceiling
            /\ \A i, j \in 1..(n + 1) :
                   i < j => BestEndBefore(ev, j) <= BestEndBefore(ev, i)

\* the ceiling has come down and a window of a later start has been scored
\* under it
C22_Witness ==
    /\ FallbackReturned
    /\ \E i, j \in 1..Len(Evaluated) :
           /\ i < j
           /\ Improved(Evaluated, i)
           /\ Evaluated[j].start > Evaluated[i].start
           /\ Evaluated[j].ceiling = Evaluated[i].end
           /\ Evaluated[j].ceiling < Len(doc_content) - 1

\* C27: a call with a fragment that is not empty returns either (-1, -1, 0)
\* or (start, end, confidence) with 0 <= start <= end < len(container) and
\* confidence > 0.
C27_ResultShape ==
    (loc_pc = "returned" /\ sub_text # <<>>) =>
        \/ result = <<-1, -1, Zero>>
        \/ /\ 0 <= result[1] /\ result[1] <= result[2]
           /\ result[2] < Len(doc_content)
           /\ ScoreGT(result[3], Zero)

---------------------------------------------------------------------------
(* Properties of gen_mrc_dataset, under Spec *)

\* the labels emitted so far
Labels == {answer_labels[i] : i \in 1..Len(answer_labels)}

\* C2: every emitted label (d, s, e) has 0 <= s <= e < len(documents[d].content),
\* documents[d] read as the function reads it.
C2_LabelOffsetsValid ==
    \A l \in Labels :
        /\ ValidIndex(documents, l[1])
        /\ 0 <= l[2] /\ l[2] <= l[3]
        /\ l[3] < Len(DocAt(documents, l[1]).content)

\* labels of a fragment found by the fallback search and of one found in a
\* supporting paragraph that starts inside the document
C2_Witness ==
    /\ mrc_pc = "done"
    /\ \E i \in 1..Len(resolved) :
          /\ resolved[i].labels # <<>>
          /\ ScoreGT(One, resolved[i].best.max_rougel)
    /\ \E l \in Labels : l[2] > 0 /\ l[3] > l[2]

\* C3: every emitted label's document index d is a valid zero-based index,
\* 0 <= d < len(documents), and is N - 1 for the marker digit N of its fragment.
C3_DocIndexValid ==
    \A i \in 1..Len(resolved) :
        \A k \in 1..Len(resolved[i].labels) :
            LET d == resolved[i].labels[k][1]
            IN  d = resolved[i].docid - 1 /\ 0 <= d /\ d < Len(documents)

\* the digits of the markers of a text
MarkerDigits(text) == {n \in Digits : \E i \in 1..Len(text) : text[i] = Marker(n)}

\* document N has exactly one supporting fragment, found verbatim in its content
SoleSupport(n) ==
    /\ Len(SupportFragments(supporting_paragraph, n)) = 1
    /\ ValidIndex(documents, n - 1)
    /\ Contains(DocAt(documents, n - 1).content,
                SupportFragments(supporting_paragraph, n)[1])

\* the label the claim gives for answer fragment a of document N
VerbatimLabel(n, a) ==
    LET f == SupportFragments(supporting_paragraph, n)[1]
        p == CHOOSE i \in 0..Len(DocAt(documents, n - 1).content) :
                 FirstAt(f, DocAt(documents, n - 1).content, i)
        q == CHOOSE i \in 0..Len(f) : FirstAt(a, f, i)
    IN  <<n - 1, p + q, p + q + Len(a) - 1>>

\* C7: with one supporting fragment of document N found verbatim at p, an
\* answer fragment of N found verbatim in it at q gets the label
\* (N-1, p+q, p+q+len-1) and its text is one of fake_answers; the sample of
\* the end-to-end scenario ends with answer_labels = [(0,0,1)] and
\* fake_answers = [its two-character answer].
C7_VerbatimLabel ==
    mrc_pc = "done" =>
        /\ \A n \in MarkerDigits(answer) :
              SoleSupport(n) =>
                 \A k \in 1..Len(AnswerFragments(answer, n)) :
                    LET a == AnswerFragments(answer, n)[k]
                    IN  Contains(SupportFragments(supporting_paragraph, n)[1], a)
                           => /\ \E i \in 1..Len(answer_labels) :
                                    /\ answer_labels[i] = VerbatimLabel(n, a)
                                    /\ fake_answers[i] = a
                              /\ Len(fake_answers) = Len(answer_labels)
        /\ (supporting_paragraph = ScenarioSupport /\ answer = ScenarioAnswer)
              => /\ answer_labels = << <<0, 0, 1>> >>
                 /\ fake_answers = << <<"bei", "jing">> >>

C7_Witness ==
    /\ mrc_pc = "done"
    /\ \E n \in MarkerDigits(answer) :
          /\ SoleSupport(n)
          /\ \E k \in 1..Len(AnswerFragments(answer, n)) :
                LET a == AnswerFragments(answer, n)[k]
                IN  /\ n > 0
                    /\ Contains(SupportFragments(supporting_paragraph, n)[1], a)
                    /\ VerbatimLabel(n, a)[2] > 1
                    /\ VerbatimLabel(n, a) \in Labels

\* C8: when the answer names a document id that is absent from documents or
\* does not occur in supporting_paragraph, the call does not raise (stated
\* here for a supporting_paragraph that names documents of the sample only).
C8_MissingIdSkipped ==
    (/\ \A m \in MarkerDigits(supporting_paragraph) : ValidIndex(documents, m - 1)
     /\ \E n \in MarkerDigits(answer) :
           \/ ~ValidIndex(documents, n - 1)
           \/ n \notin MarkerDigits(supporting_paragraph))
        => mrc_pc # "raised"

\* the three fields gen_mrc_dataset adds to a sample with an answer
AnswerFields == {"answer_labels", "fake_answers", "ceil_rougel"}

\* no answer fragment got a label
NoneResolved == \A i \in 1..Len(resolved) : resolved[i].labels = <<>>

\* C11: after the call on a sample with an answer field the sample carries
\* answer_labels, fake_answers and ceil_rougel, and when no fragment resolved
\* (none parsed included) answer_labels is empty and ceil_rougel is 0.
C11_AnswerFieldsSet ==
    (mrc_pc = "done" /\ "answer" \in sample_keys)
        => /\ AnswerFields \subseteq sample_keys
           /\ NoneResolved => (answer_labels = <<>> /\ ceil_rougel = Zero)

\* every fragment parsed from the answer has confidence 0 in every located
\* supporting paragraph of its document
NoneLocated ==
    \A n \in MarkerDigits(answer) :
        \A k \in 1..Len(AnswerFragments(answer, n)) :
            n \in DOMAIN supported_paras =>
                \A j \in 1..Len(supported_paras[n]) :
                    find_best_match_index(AnswerFragments(answer, n)[k],
                                          supported_paras[n][j][1])[3] = Zero

\* C12: when the call has ended and none of the fragments parsed from the
\* answer is located (confidence 0) in any located supporting paragraph of
\* its document, answer_labels and fake_answers are empty and ceil_rougel is 0.
C12_NoneLocatedNoLabel ==
    (mrc_pc = "done" /\ resolved # <<>> /\ NoneLocated)
        => /\ AnswerFields \subseteq sample_keys
           /\ answer_labels = <<>> /\ fake_answers = <<>> /\ ceil_rougel = Zero

\* a fragment was parsed and searched in a located supporting paragraph
C12_Witness ==
    /\ mrc_pc = "done" /\ resolved # <<>> /\ NoneLocated
    /\ \E i \in 1..Len(resolved) :
          /\ resolved[i].docid > 0
          /\ supported_paras[resolved[i].docid][1][1] # <<>>
    /\ answer_labels = <<>> /\ ceil_rougel = Zero

\* C13: when the call has ended, answer_labels holds the label of every
\* resolved fragment of every document id of the answer, those of the ids
\* processed first included.
C13_LabelsOfAllDocuments ==
    mrc_pc = "done" =>
        \A n \in MarkerDigits(answer) :
            \A k \in 1..Len(AnswerFragments(answer, n)) :
                LET r == Resolve(n, AnswerFragments(answer, n)[k], supported_paras[n])
                IN  r.labels # <<>> => r.labels[1] \in Labels

\* labels of two documents are stored
C13_Witness ==
    /\ mrc_pc = "done"
    /\ \E l1 \in Labels : \E l2 \in Labels : l1[1] = 0 /\ l2[1] = 1
    /\ MarkerDigits(answer) = {1, 2}

\* the best confidence of fragment a over the supporting paragraphs of
\* document n is above 0
BestConfidencePositive(n, a) ==
    \E j \in 1..Len(supported_paras[n]) :
        ScoreGT(find_best_match_index(a, supported_paras[n][j][1])[3], Zero)

\* C14: a label is emitted for an answer fragment if and only if its best
\* confidence over the supporting paragraphs of its document is above 0.
C14_LabelIffConfidence ==
    mrc_pc = "done" =>
        \A i \in 1..Len(resolved) :
            (resolved[i].labels # <<>>)
                <=> BestConfidencePositive(resolved[i].docid, resolved[i].text)

RECURSIVE InOrder(_)
\* the paragraphs one after the other, first to last
InOrder(paras) ==
    IF Len(paras) = 0 THEN <<>>
    ELSE InOrder(SubSeq(paras, 1, Len(paras) - 1)) \o paras[Len(paras)]

\* C16: on a sample without an answer field the call replaces the paragraphs
\* of every document by content, their concatenation in order, keeps the
\* other keys of the document and of the sample, and adds none of
\* answer_labels, fake_answers, ceil_rougel.
C16_NoAnswerFrame ==
    [][(mrc_pc = "start" /\ "answer" \notin sample_keys)
          => /\ mrc_pc' = "done"
             /\ Len(documents') = Len(documents)
             /\ \A i \in 1..Len(documents) :
                   /\ documents'[i].content = InOrder(documents[i].paragraphs)
                   /\ documents'[i].keys =
                         (documents[i].keys \ {"paragraphs"}) \cup {"content"}
             /\ sample_keys' = sample_keys
             /\ AnswerFields \cap sample_keys' = {}
             /\ answer_labels' = <<>> /\ fake_answers' = <<>>]_vars

\* a sample without an answer whose first document had two paragraphs
C16_Witness ==
    /\ mrc_pc = "done" /\ "answer" \notin sample_keys
    /\ Len(documents) = 2
    /\ documents[1].content = <<"a", "b", FullStop, "b", "a">>
    /\ documents[1].keys = {"title", "content"}

IsMarker(x) == \E n \in Digits : x = Marker(n)

\* the maximal marker-free segments <<i, j>> of a text, by position
Segments(text) ==
    {r \in (1..Len(text)) \X (1..Len(text)) :
        /\ r[1] <= r[2]
        /\ \A k \in r[1]..r[2] : ~IsMarker(text[k])
        /\ (r[1] = 1 \/ IsMarker(text[r[1] - 1]))
        /\ (r[2] = Len(text) \/ IsMarker(text[r[2] + 1]))}

\* segment r has on each side a marker of document n or an end of the text
BoundedBy(text, r, n) ==
    /\ (r[1] = 1 \/ text[r[1] - 1] = Marker(n))
    /\ (r[2] = Len(text) \/ text[r[2] + 1] = Marker(n))

\* the answer texts recorded for document n
TextsOf(n) == {resolved[k].text : k \in {k \in 1..Len(resolved) : resolved[k].docid = n}}

\* C19 as stated: a marker-free segment of the answer that follows a marker
\* is a fragment of the document of the marker before it.
C19_LastOpenedDocument ==
    mrc_pc = "done" =>
        \A r \in Segments(answer) :
            (r[1] > 1 /\ Strip(SubSeq(answer, r[1], r[2])) # <<>>)
                => \E n \in Digits :
                      /\ answer[r[1] - 1] = Marker(n)
                      /\ Strip(SubSeq(answer, r[1], r[2])) \in TextsOf(n)

\* C19 amended: a marker-free segment is a fragment of document N exactly when
\* N has a marker in the text and the segment has on each side a marker of N
\* or an end of the text; a segment between markers of two documents is
\* dropped.  For supporting_paragraph the located paragraphs of N are as many
\* as such segments.
C19_BoundedByMarkersOfN ==
    mrc_pc = "done" =>
        /\ \A n \in MarkerDigits(answer) :
              TextsOf(n) =
                 {Strip(SubSeq(answer, r[1], r[2])) :
                     r \in {r \in Segments(answer) : BoundedBy(answer, r, n)}}
                 \ {<<>>}
        /\ \A n \in Digits \ MarkerDigits(answer) : TextsOf(n) = {}
        /\ \A n \in DOMAIN supported_paras :
              Len(supported_paras[n]) =
                 Cardinality({r \in Segments(supporting_paragraph) :
                                 BoundedBy(supporting_paragraph, r, n)})

\* a text between the markers of two documents was dropped, the two enclosed
\* texts being the only fragments
C19_Witness ==
    /\ mrc_pc = "done"
    /\ Len(resolved) = 2
    /\ \E r \in Segments(answer) :
          /\ r[1] > 1 /\ r[2] < Len(answer)
          /\ answer[r[1] - 1] # answer[r[2] + 1]

\* the document whose fragment starts at position i of the answer, -1 if none
FragmentDocAt(i) ==
    LET here == {<<r, n>> \in Segments(answer) \X MarkerDigits(answer) :
                    /\ r[1] = i /\ BoundedBy(answer, r, n)
                    /\ Strip(SubSeq(answer, r[1], r[2])) # <<>>}
    IN  IF here = {} THEN -1 ELSE (CHOOSE x \in here : TRUE)[2]

\* the fragment that starts at position i of the answer
FragmentTextAt(i) ==
    LET r == CHOOSE r \in Segments(answer) : r[1] = i
    IN  Strip(SubSeq(answer, r[1], r[2]))

\* the positions at which the fragments of the answer start, left to right
FragmentStarts ==
    SelectSeq([i \in 1..Len(answer) |-> i], LAMBDA i : FragmentDocAt(i) # -1)

\* C20: answer_labels lists the resolved fragments in the order in which they
\* occur from left to right in the answer, and the reference text of
\* ceil_rougel is made of the fragments in that order.
C20_LeftToRightOrder ==
    mrc_pc = "done" =>
        /\ answer_texts = [k \in 1..Len(FragmentStarts) |->
                              FragmentTextAt(FragmentStarts[k])]
        /\ answer_labels =
              Join([k \in 1..Len(FragmentStarts) |->
                      Resolve(FragmentDocAt(FragmentStarts[k]),
                              FragmentTextAt(FragmentStarts[k]),
                              supported_paras[FragmentDocAt(FragmentStarts[k])]).labels])

\* the result of find_best_match_index for fragment r against the text of
\* supporting paragraph i of the fragment's document
MatchIn(r, i) == find_best_match_index(r.text, supported_paras[r.docid][i][1])

\* supporting paragraph i has the highest confidence for fragment r, and no
\* paragraph before it in the list has as high a one
FirstHighest(r, i) ==
    /\ \A j \in 1..Len(supported_paras[r.docid]) :
           ~ScoreGT(MatchIn(r, j)[3], MatchIn(r, i)[3])
    /\ \A j \in 1..(i - 1) : ScoreGT(MatchIn(r, i)[3], MatchIn(r, j)[3])

\* C23: every parsed answer fragment is matched against the text of each
\* supporting paragraph recorded for its document, not against the document
\* content, and the paragraph used is the one of the highest confidence, the
\* first of them in list order when several have it; none is used when every
\* confidence is 0.
C23_BestSupportingParagraph ==
    \A k \in 1..Len(resolved) :
        LET r == resolved[k]
            paras == supported_paras[r.docid]
        IN  IF \A i \in 1..Len(paras) : MatchIn(r, i)[3] = Zero
            THEN r.best = NoBest
            ELSE \E i \in 1..Len(paras) :
                     /\ FirstHighest(r, i)
                     /\ r.best.best_sup_para_i = i - 1
                     /\ r.best.max_rougel = MatchIn(r, i)[3]
                     /\ r.best.best_start_in_sup_para = MatchIn(r, i)[1]
                     /\ r.best.best_end_in_sup_para = MatchIn(r, i)[2]

\* a fragment found with the same confidence in two supporting paragraphs
\* that start at different offsets of the document: the first one is used
C23_Witness ==
    /\ mrc_pc = "done"
    /\ \E k \in 1..Len(resolved) :
           LET r == resolved[k]
               paras == supported_paras[r.docid]
           IN  /\ Len(paras) >= 2
               /\ paras[1][2] # paras[2][2]
               /\ paras[1][3] # -1 /\ paras[2][3] # -1
               /\ ScoreGT(MatchIn(r, 1)[3], Zero)
               /\ ScoreEQ(MatchIn(r, 1)[3], MatchIn(r, 2)[3])
               /\ r.best.best_sup_para_i = 0
               /\ r.labels # <<>>
               /\ paras[1][1] # DocAt(documents, r.docid - 1).content

\* the supporting paragraph (text, start, end) used for fragment r
ChosenPara(r) == supported_paras[r.docid][r.best.best_sup_para_i + 1]

\* the text found for fragment r inside its supporting paragraph
LocatedText(r) ==
    PySlice(ChosenPara(r)[1], r.best.best_start_in_sup_para,
            r.best.best_end_in_sup_para + 1)

\* documents[d].content[s..e], both ends included
ContentSlice(l) == PySlice(DocAt(documents, l[1]).content, l[2], l[3] + 1)

\* C24: the label (d, s, e) of a fragment has s = local start + start of the
\* chosen supporting paragraph in the document and e - s = local length - 1,
\* so that documents[d].content[s..e] is the text found inside the supporting
\* paragraph; answer_labels is made of these labels, fake_answers has the
\* length of answer_labels and fake_answers[i] is the slice of label i.
C24_LabelIsShiftedSpan ==
    /\ answer_labels = Join([k \in 1..Len(resolved) |-> resolved[k].labels])
    /\ \A k \in 1..Len(resolved) : \A l \in {resolved[k].labels[i] :
                                             i \in 1..Len(resolved[k].labels)} :
           LET r == resolved[k]
           IN  /\ l[2] = r.best.best_start_in_sup_para + ChosenPara(r)[2]
               /\ l[3] - l[2] = Len(LocatedText(r)) - 1
               /\ ContentSlice(l) = LocatedText(r)
    /\ Len(fake_answers) = Len(answer_labels)
    /\ \A i \in 1..Len(answer_labels) :
           fake_answers[i] = ContentSlice(answer_labels[i])

\* a fragment of two characters found past the first character of a
\* supporting paragraph that starts past the first character of the document
C24_Witness ==
    /\ mrc_pc = "done"
    /\ \E k \in 1..Len(resolved) :
           LET r == resolved[k]
           IN  /\ r.labels # <<>>
               /\ r.best.best_start_in_sup_para > 0
               /\ ChosenPara(r)[2] > 0
               /\ r.labels[1][3] > r.labels[1][2]
               /\ \E i \in 1..Len(fake_answers) :
                      /\ answer_labels[i] = r.labels[1]
                      /\ fake_answers[i] = LocatedText(r)
                      /\ Len(fake_answers[i]) = 2

---------------------------------------------------------------------------
(* Properties of extract_paragraph, under SpecExtract *)

C10_OriginalOrder ==
    ex_pc = "done" =>
        \A i \in 1..Len(passage.segmented_passage) :
            \A j \in (i + 1)..Len(passage.segmented_passage) :
                LET x == passage.segmented_passage[i]
                    y == passage.segmented_passage[j]
                IN  (x[1] >= 0 /\ y[1] >= 0) => x[1] <= y[1]

RECURSIVE CountedLen(_)
\* the tokens of the paragraphs with the given ids, one splitter each
CountedLen(ids) ==
    IF Len(ids) = 0 THEN 0
    ELSE Len(doc.segmented_paragraphs[Head(ids) + 1]) + 1 + CountedLen(Tail(ids))

\* the budget left after the title, the accepted paragraphs and their splitters
RemainingBudget ==
    max_doc_len - (Len(doc.segmented_title) + 1 + CountedLen(selection.selected_para_ids))

\* the tokens of the cut paragraph that are part of the passage
PartialParagraph ==
    SelectSeq(passage.segmented_passage, LAMBDA x : x[1] = selection.last_para_id)

\* C17: when a paragraph did not fit the budget M >= len(title) + 1, the part
\* of it in the passage is its prefix of the length of the remaining budget
\* and the passage has exactly M tokens.
C17_CutFillsBudget ==
    (/\ ex_pc = "done" /\ selection.last_para_id > -1
     /\ max_doc_len >= Len(doc.segmented_title) + 1)
        => /\ PartialParagraph =
                 SubSeq(doc.segmented_paragraphs[selection.last_para_id + 1],
                        1, RemainingBudget)
           /\ Len(passage.segmented_passage) = max_doc_len

\* the original indices of the paragraphs of the document
ParaIds == 0..(Len(doc.segmented_paragraphs) - 1)

\* paragraph i is considered before paragraph j: higher match score, then
\* fewer tokens, then smaller original index
ConsideredBefore(i, j) ==
    LET si == doc.para_match_scores[i + 1]
        sj == doc.para_match_scores[j + 1]
        li == Len(doc.segmented_paragraphs[i + 1])
        lj == Len(doc.segmented_paragraphs[j + 1])
    IN  si > sj \/ (si = sj /\ li < lj) \/ (si = sj /\ li = lj /\ i < j)

\* the place of paragraph i in that order, from 1
Rank(i) == 1 + Cardinality({j \in ParaIds : ConsideredBefore(j, i)})

RECURSIVE CountedUpTo(_, _)
\* the tokens of the paragraphs 0..i that are among the first m of the order,
\* one splitter each
CountedUpTo(i, m) ==
    IF i < 0 THEN 0
    ELSE (IF Rank(i) <= m THEN Len(doc.segmented_paragraphs[i + 1]) + 1 ELSE 0)
             + CountedUpTo(i - 1, m)

\* the tokens counted for the title and the first m paragraphs of the order
LenOfFirst(m) ==
    Len(doc.segmented_title) + 1 + CountedUpTo(Len(doc.segmented_paragraphs) - 1, m)

\* the paragraphs accepted whole so far
Accepted == {selection.selected_para_ids[k] : k \in 1..Len(selection.selected_para_ids)}

\* C25: the paragraphs are considered in the order of the key (-match score,
\* token length), those of equal key in the order of their original index;
\* the paragraphs accepted whole are the first ones of that order, each
\* fitting the budget with those before it, and when one does not fit it is
\* the next of the order and nothing after it is accepted.
C25_AcceptedIsPrefix ==
    ex_pc \in {"select", "build", "done"} =>
        LET m == Len(selection.selected_para_ids)
        IN  /\ Accepted = {i \in ParaIds : Rank(i) <= m}
            /\ \A k \in 1..m : LenOfFirst(k) <= max_doc_len
            /\ ex_pc = "select" =>
                   /\ \A k \in 1..m : Rank(selection.selected_para_ids[k]) = k
                   /\ Len(selection.para_infos) = Cardinality(ParaIds) - m
                   /\ \A k \in 1..Len(selection.para_infos) :
                          Rank(selection.para_infos[k][3]) = m + k
            /\ selection.last_para_id > -1 =>
                   /\ Rank(selection.last_para_id) = m + 1
                   /\ LenOfFirst(m + 1) > max_doc_len
            /\ (ex_pc # "select" /\ selection.last_para_id = -1) =>
                   m = Cardinality(ParaIds)

\* under a title and paragraphs that are not empty, a paragraph was accepted,
\* the next one of the order did not fit, and a paragraph after it that would
\* have fitted is not part of the passage
C25_Witness ==
    /\ ex_pc = "done"
    /\ selection.selected_para_ids # <<>>
    /\ doc.segmented_title # <<>>
    /\ \A i \in ParaIds : doc.segmented_paragraphs[i + 1] # <<>>
    /\ selection.last_para_id > -1
    /\ \E j \in ParaIds :
           /\ Rank(j) > Rank(selection.last_para_id)
           /\ LenOfFirst(Len(selection.selected_para_ids))
                  + Len(doc.segmented_paragraphs[j + 1]) + 1 <= max_doc_len
           /\ \A i \in 1..Len(passage.segmented_passage) :
                  passage.segmented_passage[i][1] # j

\* the match score of entry p (from 1) of the passage: the title first, then
\* the paragraphs in the order of their concatenation
EntryScore(p) == passage.paragraph_match_score[p]

\* the entries of the passage that are paragraphs
ParaEntries == {p \in 1..Len(passage.para_ids) : passage.para_ids[p] # -1}

\* C26 as stated: most_related_para_id designates a paragraph of the passage,
\* never the title, and that paragraph has the highest match score of the
\* paragraphs of the passage, the first of them when several have it.  Stated
\* here for a title and paragraphs that are not empty, all of them taken whole.
C26_MostRelatedIsParagraph ==
    (/\ ex_pc = "done" /\ ParaEntries # {}
     /\ doc.segmented_title # <<>>
     /\ \A i \in ParaIds : doc.segmented_paragraphs[i + 1] # <<>>
     /\ selection.last_para_id = -1) =>
        LET p == passage.most_related_para_id + 1
        IN  /\ p \in ParaEntries
            /\ \A q \in ParaEntries : EntryScore(q) <= EntryScore(p)
            /\ \A q \in ParaEntries : q < p => EntryScore(q) < EntryScore(p)

\* C26 amended: most_related_para_id is the position, from 0, of the first
\* entry of the highest match score in the list made of the title (position
\* 0) and the paragraphs of the passage in the order of their concatenation;
\* the title is designated whenever no paragraph scores higher than it.
C26_FirstMaximumOfPassage ==
    ex_pc = "done" =>
        LET p == passage.most_related_para_id + 1
        IN  /\ p \in 1..Len(passage.para_ids)
            /\ Len(passage.paragraph_match_score) = Len(passage.para_ids)
            /\ EntryScore(1) = doc.title_match_score
            /\ \A q \in ParaEntries :
                   passage.para_ids[q] # selection.last_para_id =>
                       EntryScore(q) = doc.para_match_scores[passage.para_ids[q] + 1]
            /\ \A q \in 1..Len(passage.para_ids) : EntryScore(q) <= EntryScore(p)
            /\ \A q \in 1..(p - 1) : EntryScore(q) < EntryScore(p)
            /\ (p = 1) <=> (\A q \in ParaEntries : EntryScore(q) <= EntryScore(1))

\* the title and two whole paragraphs, none of them empty, are in the passage;
\* one paragraph scores as high as the title, the other lower, and the title
\* is designated
C26_Witness ==
    /\ ex_pc = "done"
    /\ passage.most_related_para_id = 0
    /\ doc.segmented_title # <<>>
    /\ selection.last_para_id = -1
    /\ Cardinality(ParaEntries) >= 2
    /\ \A i \in ParaIds : doc.segmented_paragraphs[i + 1] # <<>>
    /\ \E q \in ParaEntries : EntryScore(q) = EntryScore(1)
    /\ \E q \in ParaEntries : EntryScore(q) < EntryScore(1)

\* entry i of the feature list fs is the feature f of token i of the passage,
\* the pad where the passage has a splitter
Describes(fs, f, pad) ==
    /\ Len(fs) = Len(passage.segmented_passage)
    /\ \A i \in 1..Len(passage.segmented_passage) :
           LET t == passage.segmented_passage[i]
           IN  IF t = splitter THEN fs[i] = pad ELSE fs[i] = <<f, t[1], t[2]>>

\* C28: with feature lists as long as the token lists they belong to,
\* pos_passage, keyword_passage and passage_word_in_question have the length
\* of segmented_passage and their entry i is the feature of token i of
\* segmented_passage, a truncated last paragraph included.
C28_FeaturesAligned ==
    ex_pc = "done" =>
        /\ Describes(passage.pos_passage, POS, splitter)
        /\ Describes(passage.keyword_passage, KEYWORD, zero)
        /\ Describes(passage.passage_word_in_question, IN_QUESTION, zero)

\* a title, a paragraph taken whole and a part of a truncated paragraph, none
\* of them empty, are in the passage
C28_Witness ==
    /\ ex_pc = "done"
    /\ doc.segmented_title # <<>>
    /\ selection.last_para_id > -1
    /\ \E i \in 1..Len(passage.segmented_passage) :
           /\ passage.segmented_passage[i][1] = selection.last_para_id
           /\ passage.pos_passage[i][2] = selection.last_para_id
    /\ Len(PartialParagraph) < Len(doc.segmented_paragraphs[selection.last_para_id + 1])
    /\ \E k \in 1..Len(selection.selected_para_ids) :
           doc.segmented_paragraphs[selection.selected_para_ids[k] + 1] # <<>>

---------------------------------------------------------------------------
(* Properties of the stream loop, under SpecStream *)

\* the numbers of the lines that start with '{' and are valid JSON
ValidRecords == SelectSeq([i \in 1..Len(stdin) |-> i],
                          LAMBDA i : stdin[i].starts_brace /\ stdin[i].valid_json)

\* C15: when the loop has stopped on an input none of whose samples makes the
\* function raise, it has reached the end of the input and printed every
\* valid record in input order, whatever invalid lines the input holds.
C15_InvalidLinesSkipped ==
    (/\ stream_pc \in {"eof", "aborted"}
     /\ \A i \in 1..Len(stdin) : ~stdin[i].raises)
        => (stream_pc = "eof" /\ stdout = ValidRecords)

---------------------------------------------------------------------------
(* Properties of extract_match_features, under SpecMatch *)

\* C29: after extract_match_features a feature list of a document with a
\* content that is not empty has exactly len(content) entries, whether the
\* content ends with a delimiter or not.
C29_OneValuePerCharacter ==
    (match_pc = "done" /\ match_content # <<>>) =>
        Len(levenshtein_dist) = Len(match_content)

---------------------------------------------------------------------------
(* Properties of the entity loop of extract_text_features, under            *)
(* SpecEntitiesFair                                                          *)

\* the entities are in the order of their start offsets
OrderedByStart ==
    \A i, j \in 1..Len(entities) : i < j => entities[i][1] <= entities[j][1]

\* the types of the entities whose range holds the offset c
TypesAt(c) == {entities[k][3] : k \in {k \in 1..Len(entities) :
                                          /\ entities[k][1] <= c
                                          /\ c < entities[k][1] + Len(entities[k][4])}}

\* the loop has ended with one tag per character, and for entities ordered
\* by start the tag of a character is the type of an entity that holds it,
\* the empty tag when none does
ProjectedTags ==
    /\ ent_pc = "done"
    /\ Len(char_entity) = Len(ent_text)
    /\ OrderedByStart =>
           \A c \in 0..(Len(ent_text) - 1) :
               IF TypesAt(c) = {} THEN char_entity[c + 1] = ""
               ELSE char_entity[c + 1] \in TypesAt(c)

\* C30: the loop that projects the entities onto the characters ends for
\* every text and every list of entities, with exactly len(text) tags; for
\* entities ordered by start the character at offset c has the type of the
\* entity whose range [start, start + len(entity text)) holds c, the empty
\* tag when no entity covers c.
C30_ProjectionTerminates == <>ProjectedTags

\* the loop has ended on a text with a character before the first entity and
\* characters inside two entities of different types
C30_Witness ==
    /\ ProjectedTags
    /\ OrderedByStart
    /\ Len(ent_text) >= 1
    /\ Len(entities) = 2
    /\ entities[1][3] # entities[2][3]
    /\ char_entity[1] = ""
    /\ \E c, d \in 1..Len(ent_text) :
           /\ c < d
           /\ char_entity[c] = entities[1][3]
           /\ char_entity[d] = entities[2][3]

===========================================================================
